---- MODULE Spec2Model ----
(***************************************************************************)
(* A model of the fusion-compiler expression front end: the lexer          *)
(* (ast/lexer.rs), the precedence-climbing parser (ast/parser.rs), the     *)
(* tree-walking evaluator (ast/evaluator.rs) and the driver (main.rs).     *)
(*                                                                         *)
(* A character is modelled as a string naming it.  A Rust &str is a UTF-8  *)
(* byte string: input.len() and input[a..b] count bytes, chars().nth(i)    *)
(* counts characters.  Utf8Len gives each character's width in bytes, so   *)
(* the two kinds of index are kept apart exactly as the code mixes them.   *)
(* An Option<T> is a sequence of length 0 (None) or 1 (Some).              *)
(***************************************************************************)
EXTENDS Integers, Sequences, FiniteSets, TLC

VARIABLES
    input,        \* Lexer.input: the sequence of characters
    current_pos,  \* Lexer.current_pos
    lex_out,      \* the tokens next_token has returned so far, in order
    lex_last,     \* outcome of the latest next_token call
    tokens,       \* Parser.tokens
    current,      \* Parser.current
    ast,          \* the statements next_statement has returned so far
    ps_last,      \* outcome of the latest next_statement call
    expr,         \* the expression handed to the evaluator
    last_value,   \* ASTEvaluator.last_value
    pc            \* position of the caller (main, or a client of one component)

vars == <<input, current_pos, lex_out, lex_last, tokens, current, ast,
          ps_last, expr, last_value, pc>>

(***************************************************************************)
(* Bounds of the model.                                                    *)
(***************************************************************************)
MaxLen == 3
MaxTokens == 4
MaxFairTokens == 3
MaxOperand == 4
MaxLeaf == 2

(***************************************************************************)
(* Characters.                                                             *)
(***************************************************************************)
NUL == "NUL"

Digits == {"0", "1", "2", "3", "4", "5", "6", "7", "8", "9"}

\* Characters outside ASCII: U+00E9 (e acute) and U+00A0 (no-break space,
\* which char::is_whitespace accepts).  Both take two bytes in UTF-8.
MultiByte == {"U+00E9", "U+00A0"}

Utf8Len(c) == IF c \in MultiByte THEN 2 ELSE 1

DigitValue(c) ==
    CASE c = "0" -> 0 [] c = "1" -> 1 [] c = "2" -> 2 [] c = "3" -> 3
      [] c = "4" -> 4 [] c = "5" -> 5 [] c = "6" -> 6 [] c = "7" -> 7
      [] c = "8" -> 8 [] c = "9" -> 9

DigitChar(n) == CHOOSE c \in Digits : DigitValue(c) = n

is_number_start(c) == c \in Digits

is_whitespace(c) == c \in {" ", "U+00A0"}

RECURSIVE ByteLen(_)
ByteLen(s) == IF s = <<>> THEN 0 ELSE Utf8Len(Head(s)) + ByteLen(Tail(s))

\* str::is_char_boundary: offset 0, the end, or the first byte of a character.
IsCharBoundary(s, i) ==
    \E k \in 0..Len(s) : ByteLen(SubSeq(s, 1, k)) = i

\* The characters of the byte range [a, b), both offsets being boundaries.
Slice(s, a, b) ==
    LET ka == CHOOSE k \in 0..Len(s) : ByteLen(SubSeq(s, 1, k)) = a
        kb == CHOOSE k \in 0..Len(s) : ByteLen(SubSeq(s, 1, k)) = b
    IN  SubSeq(s, ka + 1, kb)

(***************************************************************************)
(* Tokens.                                                                 *)
(***************************************************************************)
Number(n) == <<"Number", n>>
Plus == <<"Plus">>
Minus == <<"Minus">>
Asterisk == <<"Asterisk">>
Slash == <<"Slash">>
LeftParen == <<"LeftParen">>
RightParen == <<"RightParen">>
Whitespace == <<"Whitespace">>
EOF == <<"EOF">>
Bad == <<"Bad">>

TextSpan(start, end, literal) ==
    [start |-> start, end |-> end, literal |-> literal]

Token(kind, span) == [kind |-> kind, span |-> span]

(***************************************************************************)
(* The lexer.  Each operator returns the cursor it leaves behind; fault    *)
(* marks a panic (an unwrap of None, or a slice off a character boundary). *)
(***************************************************************************)
current_char(s, pos) == IF pos < Len(s) THEN <<s[pos + 1]>> ELSE <<>>

lexer_consume(s, pos) ==
    IF pos >= ByteLen(s)
    THEN [c |-> <<>>, pos |-> pos]
    ELSE [c |-> current_char(s, pos), pos |-> pos + 1]

RECURSIVE consume_number_from(_, _, _)
consume_number_from(s, pos, number) ==
    LET c == current_char(s, pos)
    IN  IF c # <<>> /\ c[1] \in Digits
        THEN LET r == lexer_consume(s, pos)
             IN  IF r.c = <<>>
                 THEN [fault |-> TRUE, number |-> number, pos |-> r.pos]
                 ELSE consume_number_from(s, r.pos, number * 10 + DigitValue(c[1]))
        ELSE [fault |-> FALSE, number |-> number, pos |-> pos]

consume_number(s, pos) == consume_number_from(s, pos, 0)

PunctuationKind(c) ==
    CASE c = "+" -> Plus
      [] c = "-" -> Minus
      [] c = "*" -> Asterisk
      [] c = "/" -> Slash
      [] c = "(" -> LeftParen
      [] c = ")" -> RightParen
      [] OTHER -> Bad

consume_punctuation(s, pos) ==
    LET r == lexer_consume(s, pos)
    IN  IF r.c = <<>>
        THEN [fault |-> TRUE, kind |-> Bad, pos |-> r.pos]
        ELSE [fault |-> FALSE, kind |-> PunctuationKind(r.c[1]), pos |-> r.pos]

\* The kind chosen for the character c at pos, and the cursor after it.
Classify(s, pos, c) ==
    IF is_number_start(c)
    THEN LET n == consume_number(s, pos)
         IN  [fault |-> n.fault, kind |-> Number(n.number), pos |-> n.pos]
    ELSE IF is_whitespace(c)
    THEN [fault |-> FALSE, kind |-> Whitespace, pos |-> lexer_consume(s, pos).pos]
    ELSE consume_punctuation(s, pos)

\* Lexer::next_token: st is "Some" (tok returned), "None", or "Panic".
next_token(s, pos) ==
    IF pos = ByteLen(s)
    THEN [st |-> "Some", tok |-> Token(EOF, TextSpan(0, 0, <<NUL>>)),
          pos |-> pos + 1]
    ELSE LET c == current_char(s, pos)
         IN  IF c = <<>>
             THEN [st |-> "None", tok |-> <<>>, pos |-> pos]
             ELSE LET k == Classify(s, pos, c[1])
                  IN  IF k.fault \/ ~IsCharBoundary(s, pos)
                                 \/ ~IsCharBoundary(s, k.pos)
                      THEN [st |-> "Panic", tok |-> <<>>, pos |-> k.pos]
                      ELSE [st |-> "Some",
                            tok |-> Token(k.kind,
                                     TextSpan(pos, k.pos, Slice(s, pos, k.pos))),
                            pos |-> k.pos]

(***************************************************************************)
(* A client that calls next_token again and again on one lexer.            *)
(***************************************************************************)
LexAlphabet ==
    {"1", "2", "+", "-", "*", "/", "(", ")", " ", "x", "U+00E9", "U+00A0"}

RECURSIVE StringsUpTo(_, _)
StringsUpTo(A, n) ==
    IF n = 0 THEN {<<>>}
    ELSE LET shorter == StringsUpTo(A, n - 1)
         IN  shorter \cup {Append(s, c) : s \in shorter, c \in A}

InitLexer ==
    /\ input \in StringsUpTo(LexAlphabet, MaxLen)
    /\ current_pos = 0
    /\ lex_out = <<>>
    /\ lex_last = "init"
    /\ tokens = <<>>
    /\ current = 0
    /\ ast = <<>>
    /\ ps_last = "init"
    /\ expr = <<>>
    /\ last_value = <<>>
    /\ pc = "lexer"

LexerNextToken ==
    /\ pc = "lexer"
    /\ lex_last # "Panic"
    /\ LET r == next_token(input, current_pos)
       IN  /\ current_pos' = r.pos
           /\ lex_last' = r.st
           /\ lex_out' = IF r.st = "Some" THEN Append(lex_out, r.tok) ELSE lex_out
    /\ UNCHANGED <<input, tokens, current, ast, ps_last, expr, last_value, pc>>

NextLexer == LexerNextToken

SpecLexer == InitLexer /\ [][NextLexer]_vars

(***************************************************************************)
(* The AST.                                                                *)
(***************************************************************************)
NumberExpression(n) == [type |-> "Number", number |-> n]

BinaryExpression(operator, left, right) ==
    [type |-> "Binary", operator |-> operator, left |-> left, right |-> right]

ParenthesizedExpression(e) == [type |-> "Parenthesized", expression |-> e]

ASTBinaryOperator(kind, token) == [kind |-> kind, token |-> token]

ExpressionStatement(e) == [kind |-> "Expression", expr |-> e]

\* ASTBinaryOperator::precedence
precedence(operator) ==
    CASE operator.kind = "Plus" -> 1
      [] operator.kind = "Minus" -> 1
      [] operator.kind = "Multiply" -> 2
      [] operator.kind = "Divide" -> 2

(***************************************************************************)
(* The parser.  A parse step returns st ("Some", "None" or "Panic"), the   *)
(* node e it built and the cursor cur it leaves behind: the cursor moves   *)
(* on every consume, also on the paths that end in None.                   *)
(***************************************************************************)
\* Parser::new keeps the tokens that are not Whitespace, in order.
ParserNew(toks) == SelectSeq(toks, LAMBDA t : t.kind # Whitespace)

peek(toks, cur, offset) ==
    LET i == cur + offset
    IN  IF i >= 0 /\ i < Len(toks) THEN <<toks[i + 1]>> ELSE <<>>

current_token(toks, cur) == peek(toks, cur, 0)

parser_consume(toks, cur) == [tok |-> peek(toks, cur + 1, -1), cur |-> cur + 1]

OperatorKind(kind) ==
    CASE kind = Plus -> <<"Plus">>
      [] kind = Minus -> <<"Minus">>
      [] kind = Asterisk -> <<"Multiply">>
      [] kind = Slash -> <<"Divide">>
      [] OTHER -> <<>>

parse_binary_operator(toks, cur) ==
    LET token == current_token(toks, cur)
    IN  IF token = <<>> THEN <<>>
        ELSE LET kind == OperatorKind(token[1].kind)
             IN  IF kind = <<>> THEN <<>>
                 ELSE <<ASTBinaryOperator(kind[1], token[1])>>

NoNode == <<>>

RECURSIVE parse_primary_expression(_, _)
RECURSIVE parse_binary_expression(_, _, _)
RECURSIVE parse_binary_loop(_, _, _, _)

parse_expression(toks, cur) == parse_binary_expression(toks, cur, 0)

\* parse_primary_expression leaving the closing parenthesis unread.
parse_primary_expression_unclosed(toks, cur) ==
    LET c == parser_consume(toks, cur)
    IN  IF c.tok = <<>>
        THEN [st |-> "None", e |-> NoNode, cur |-> c.cur]
        ELSE IF c.tok[1].kind[1] = "Number"
        THEN [st |-> "Some", e |-> NumberExpression(c.tok[1].kind[2]),
              cur |-> c.cur]
        ELSE IF c.tok[1].kind = LeftParen
        THEN LET inner == parse_expression(toks, c.cur)
             IN  IF inner.st # "Some" THEN inner
                 ELSE [st |-> "Some", e |-> ParenthesizedExpression(inner.e),
                       cur |-> inner.cur]
        ELSE [st |-> "None", e |-> NoNode, cur |-> c.cur]

parse_primary_expression(toks, cur) ==
    LET c == parser_consume(toks, cur)
    IN  IF c.tok = <<>>
        THEN [st |-> "None", e |-> NoNode, cur |-> c.cur]
        ELSE IF c.tok[1].kind[1] = "Number"
        THEN [st |-> "Some", e |-> NumberExpression(c.tok[1].kind[2]),
              cur |-> c.cur]
        ELSE IF c.tok[1].kind = LeftParen
        THEN LET inner == parse_expression(toks, c.cur)
             IN  IF inner.st # "Some" THEN inner
                 ELSE LET close == parser_consume(toks, inner.cur)
                      IN  IF close.tok = <<>>
                          THEN [st |-> "None", e |-> NoNode, cur |-> close.cur]
                          ELSE IF close.tok[1].kind # RightParen
                          THEN [st |-> "Panic", e |-> NoNode, cur |-> close.cur]
                          ELSE [st |-> "Some",
                                e |-> ParenthesizedExpression(inner.e),
                                cur |-> close.cur]
        ELSE [st |-> "None", e |-> NoNode, cur |-> c.cur]

\* The while loop of parse_binary_expression, entered with the operand left.
parse_binary_loop(toks, cur, min_precedence, left) ==
    LET operator == parse_binary_operator(toks, cur)
    IN  IF operator = <<>>
        THEN [st |-> "Some", e |-> left, cur |-> cur]
        ELSE LET after == parser_consume(toks, cur).cur
                 operator_precedence == precedence(operator[1])
             IN  IF operator_precedence < min_precedence
                 THEN [st |-> "Some", e |-> left, cur |-> after]
                 ELSE LET right == parse_binary_expression(toks, after,
                                                           operator_precedence)
                      IN  IF right.st # "Some" THEN right
                          ELSE parse_binary_loop(toks, right.cur, min_precedence,
                                   BinaryExpression(operator[1], left, right.e))

parse_binary_expression(toks, cur, min_precedence) ==
    LET left == parse_primary_expression(toks, cur)
    IN  IF left.st # "Some" THEN left
        ELSE parse_binary_loop(toks, left.cur, min_precedence, left.e)

\* parse_statement handing back its statement with the cursor where it was.
parse_statement_rewound(toks, cur) ==
    IF current_token(toks, cur) = <<>>
    THEN [st |-> "None", e |-> NoNode, cur |-> cur]
    ELSE LET r == parse_expression(toks, cur)
         IN  IF r.st = "Some"
             THEN [st |-> "Some", e |-> ExpressionStatement(r.e), cur |-> cur]
             ELSE r

parse_statement(toks, cur) ==
    IF current_token(toks, cur) = <<>>
    THEN [st |-> "None", e |-> NoNode, cur |-> cur]
    ELSE LET r == parse_expression(toks, cur)
         IN  IF r.st = "Some"
             THEN [st |-> "Some", e |-> ExpressionStatement(r.e), cur |-> r.cur]
             ELSE r

next_statement(toks, cur) ==
    LET token == current_token(toks, cur)
    IN  IF token = <<>> \/ token[1].kind = EOF
        THEN [st |-> "None", e |-> NoNode, cur |-> cur]
        ELSE parse_statement(toks, cur)

(***************************************************************************)
(* A client that fills a token vector with any tokens, builds a parser     *)
(* from it and calls next_statement again and again, keeping the           *)
(* statements it is given.                                                 *)
(***************************************************************************)
NoSpan == TextSpan(0, 0, <<>>)

TokenKinds ==
    {Number(1), Plus, Asterisk, LeftParen, RightParen, Whitespace, EOF, Bad}

InitParser ==
    /\ input = <<>>
    /\ current_pos = 0
    /\ lex_out = <<>>
    /\ lex_last = "init"
    /\ tokens = <<>>
    /\ current = 0
    /\ ast = <<>>
    /\ ps_last = "init"
    /\ expr = <<>>
    /\ last_value = <<>>
    /\ pc = "fill"

\* tokens.push(token), with a token of any of the kinds, up to max tokens
PushToken(kinds, max) ==
    /\ pc = "fill"
    /\ Len(lex_out) < max
    /\ \E k \in kinds : lex_out' = Append(lex_out, Token(k, NoSpan))
    /\ UNCHANGED <<input, current_pos, lex_last, tokens, current, ast, ps_last,
                   expr, last_value, pc>>

ClientPush == PushToken(TokenKinds, MaxTokens)

\* Parser::new(tokens)
ClientParserNew ==
    /\ pc = "fill"
    /\ tokens' = ParserNew(lex_out)
    /\ current' = 0
    /\ pc' = "parser"
    /\ UNCHANGED <<input, current_pos, lex_out, lex_last, ast, ps_last, expr,
                   last_value>>

ParserNextStatement ==
    /\ pc = "parser"
    /\ ps_last # "Panic"
    /\ LET r == next_statement(tokens, current)
       IN  /\ current' = r.cur
           /\ ps_last' = r.st
           /\ ast' = IF r.st = "Some" THEN Append(ast, r.e) ELSE ast
    /\ UNCHANGED <<input, current_pos, lex_out, lex_last, tokens, expr,
                   last_value, pc>>

NextParser == ClientPush \/ ClientParserNew \/ ParserNextStatement

SpecParser == InitParser /\ [][NextParser]_vars

\* The same client as one sequential thread that runs on: a step that can
\* be taken is taken.
FairTokenKinds == {Number(1), Plus, Asterisk, LeftParen, RightParen, EOF}

FairClientPush == PushToken(FairTokenKinds, MaxFairTokens)

NextFairParser == FairClientPush \/ ClientParserNew \/ ParserNextStatement

FairSpecParser ==
    InitParser /\ [][NextFairParser]_vars /\ WF_vars(NextFairParser)

(***************************************************************************)
(* The evaluator.  Its state is last_value (an Option<i64>); fault marks a *)
(* panic: an unwrap of None, or a division by zero.                        *)
(***************************************************************************)
Abs(x) == IF x < 0 THEN -x ELSE x

\* Rust's i64 division truncates toward zero.
TruncDiv(a, b) ==
    LET q == Abs(a) \div Abs(b)
    IN  IF (a < 0) # (b < 0) THEN -q ELSE q

NewEvaluator == [last_value |-> <<>>, fault |-> FALSE]

Faulted(ev) == [last_value |-> ev.last_value, fault |-> TRUE]

visit_number(ev, number) == [ev EXCEPT !.last_value = <<number.number>>]

RECURSIVE visit_expression(_, _)
RECURSIVE visit_binary_expression(_, _)

\* visit_binary_expression reading the left value after the right visit.
visit_binary_expression_late_left(ev, e) ==
    LET l == visit_expression(ev, e.left)
    IN  IF l.fault \/ l.last_value = <<>> THEN Faulted(l)
        ELSE LET r == visit_expression(l, e.right)
             IN  IF r.fault \/ r.last_value = <<>> THEN Faulted(r)
                 ELSE LET left == r.last_value[1]
                          right == r.last_value[1]
                      IN  CASE e.operator.kind = "Plus" ->
                                 [r EXCEPT !.last_value = <<left + right>>]
                            [] e.operator.kind = "Minus" ->
                                 [r EXCEPT !.last_value = <<left - right>>]
                            [] e.operator.kind = "Multiply" ->
                                 [r EXCEPT !.last_value = <<left * right>>]
                            [] e.operator.kind = "Divide" ->
                                 IF right = 0 THEN Faulted(r)
                                 ELSE [r EXCEPT !.last_value =
                                                  <<TruncDiv(left, right)>>]

visit_binary_expression(ev, e) ==
    LET l == visit_expression(ev, e.left)
    IN  IF l.fault \/ l.last_value = <<>> THEN Faulted(l)
        ELSE LET left == l.last_value[1]
                 r == visit_expression(l, e.right)
             IN  IF r.fault \/ r.last_value = <<>> THEN Faulted(r)
                 ELSE LET right == r.last_value[1]
                      IN  CASE e.operator.kind = "Plus" ->
                                 [r EXCEPT !.last_value = <<left + right>>]
                            [] e.operator.kind = "Minus" ->
                                 [r EXCEPT !.last_value = <<left - right>>]
                            [] e.operator.kind = "Multiply" ->
                                 [r EXCEPT !.last_value = <<left * right>>]
                            [] e.operator.kind = "Divide" ->
                                 IF right = 0 THEN Faulted(r)
                                 ELSE [r EXCEPT !.last_value =
                                                  <<TruncDiv(left, right)>>]

\* ASTVisitor::visit_expression: dispatch on the variant; a Parenthesized
\* node is unwrapped and its inner expression visited.
visit_expression(ev, e) ==
    IF ev.fault THEN ev
    ELSE CASE e.type = "Number" -> visit_number(ev, e)
           [] e.type = "Binary" -> visit_binary_expression(ev, e)
           [] e.type = "Parenthesized" -> visit_expression(ev, e.expression)

\* Ast::visit: every statement in order, with the one evaluator.
RECURSIVE AstVisit(_, _)
AstVisit(ev, statements) ==
    IF statements = <<>> THEN ev
    ELSE AstVisit(visit_expression(ev, Head(statements).expr), Tail(statements))

(***************************************************************************)
(* A client that hands one expression tree to a fresh evaluator.           *)
(***************************************************************************)
Leaves == {NumberExpression(n) : n \in 1..MaxLeaf}

Operators ==
    { ASTBinaryOperator("Plus", Token(Plus, NoSpan)),
      ASTBinaryOperator("Minus", Token(Minus, NoSpan)),
      ASTBinaryOperator("Multiply", Token(Asterisk, NoSpan)),
      ASTBinaryOperator("Divide", Token(Slash, NoSpan)) }

Grow(T) ==
    Leaves \cup {BinaryExpression(o, l, r) : o \in Operators, l \in T, r \in T}
           \cup {ParenthesizedExpression(e) : e \in T}

Trees == Grow(Grow(Leaves))

InitEval ==
    /\ input = <<>>
    /\ current_pos = 0
    /\ lex_out = <<>>
    /\ lex_last = "init"
    /\ tokens = <<>>
    /\ current = 0
    /\ ast = <<>>
    /\ ps_last = "init"
    /\ expr \in Trees
    /\ last_value = NewEvaluator.last_value
    /\ pc = "evaluator"

EvaluatorVisit ==
    /\ pc = "evaluator"
    /\ LET ev == visit_expression([last_value |-> last_value, fault |-> FALSE],
                                  expr)
       IN  /\ last_value' = ev.last_value
           /\ pc' = IF ev.fault THEN "panic" ELSE "visited"
    /\ UNCHANGED <<input, current_pos, lex_out, lex_last, tokens, current, ast,
                   ps_last, expr>>

NextEval == EvaluatorVisit

SpecEval == InitEval /\ [][NextEval]_vars

(***************************************************************************)
(* The driver, main: lex the input to the end, build the parser, collect   *)
(* statements until next_statement returns None, evaluate the Ast.         *)
(***************************************************************************)
OperandChars == {DigitChar(n) : n \in 1..MaxOperand}

OperatorChars == {"+", "-", "*", "/"}

Chain(a, o1, b, o2, c) == <<a, " ", o1, " ", b, " ", o2, " ", c>>

ParenLeft(a, o1, b, o2, c) == <<"(", a, " ", o1, " ", b, ")", " ", o2, " ", c>>

ParenRight(a, o1, b, o2, c) == <<a, " ", o1, " ", "(", b, " ", o2, " ", c, ")">>

\* The input main.rs is written with: "( 7  + 8) * 8 / 2".
MainInput ==
    <<"(", " ", "7", " ", " ", "+", " ", "8", ")", " ", "*", " ", "8", " ",
      "/", " ", "2">>

Examples ==
    { MainInput,
      <<>>,
      <<"4", "2">>,
      <<"7", " ", "/", " ", "2">>,
      <<"(", "1", " ", "+", " ", "2">>,
      Chain("8", "-", "3", "-", "2"),
      Chain("8", "/", "3", "/", "8"),
      <<"1", " ", "+", " ", "U+00E9">> }

DriverInputs ==
    Examples
    \cup {Chain(a, o1, b, o2, c) : a \in OperandChars, o1 \in OperatorChars,
              b \in OperandChars, o2 \in OperatorChars, c \in OperandChars}
    \cup {ParenLeft(a, o1, b, o2, c) : a \in OperandChars, o1 \in OperatorChars,
              b \in OperandChars, o2 \in OperatorChars, c \in OperandChars}
    \cup {ParenRight(a, o1, b, o2, c) : a \in OperandChars, o1 \in OperatorChars,
              b \in OperandChars, o2 \in OperatorChars, c \in OperandChars}

Init ==
    /\ input \in DriverInputs
    /\ current_pos = 0
    /\ lex_out = <<>>
    /\ lex_last = "init"
    /\ tokens = <<>>
    /\ current = 0
    /\ ast = <<>>
    /\ ps_last = "init"
    /\ expr = <<>>
    /\ last_value = <<>>
    /\ pc = "main_lex"

\* main.rs: while let Some(token) = lexer.next_token() { tokens.push(token) }
MainLex ==
    /\ pc = "main_lex"
    /\ LET r == next_token(input, current_pos)
       IN  /\ current_pos' = r.pos
           /\ lex_last' = r.st
           /\ lex_out' = IF r.st = "Some" THEN Append(lex_out, r.tok) ELSE lex_out
           /\ pc' = CASE r.st = "Some" -> "main_lex"
                      [] r.st = "None" -> "main_new"
                      [] r.st = "Panic" -> "panic"
    /\ UNCHANGED <<input, tokens, current, ast, ps_last, expr, last_value>>

\* main.rs: Ast::new(), Parser::new(tokens)
MainParserNew ==
    /\ pc = "main_new"
    /\ tokens' = ParserNew(lex_out)
    /\ current' = 0
    /\ ast' = <<>>
    /\ pc' = "main_parse"
    /\ UNCHANGED <<input, current_pos, lex_out, lex_last, ps_last, expr,
                   last_value>>

\* main.rs: while let Some(stmt) = parser.next_statement() { ast.add_statement(stmt) }
MainParse ==
    /\ pc = "main_parse"
    /\ LET r == next_statement(tokens, current)
       IN  /\ current' = r.cur
           /\ ps_last' = r.st
           /\ ast' = IF r.st = "Some" THEN Append(ast, r.e) ELSE ast
           /\ pc' = CASE r.st = "Some" -> "main_parse"
                      [] r.st = "None" -> "main_eval"
                      [] r.st = "Panic" -> "panic"
    /\ UNCHANGED <<input, current_pos, lex_out, lex_last, tokens, expr,
                   last_value>>

\* main.rs: ASTEvaluator::new(), ast.visit(&mut eval), eval.last_value
MainEvaluate ==
    /\ pc = "main_eval"
    /\ LET ev == AstVisit(NewEvaluator, ast)
       IN  /\ last_value' = ev.last_value
           /\ pc' = IF ev.fault THEN "panic" ELSE "done"
    /\ UNCHANGED <<input, current_pos, lex_out, lex_last, tokens, current, ast,
                   ps_last, expr>>

Next == MainLex \/ MainParserNew \/ MainParse \/ MainEvaluate

Spec == Init /\ [][Next]_vars

\* Where main stands when the run is over.
MainOver == pc \in {"done", "panic"}

(***************************************************************************)
(* Reading an input of the driver: its shape, and the value arithmetic     *)
(* gives it.                                                               *)
(***************************************************************************)
ApplyChar(o, x, y) ==
    CASE o = "+" -> x + y
      [] o = "-" -> x - y
      [] o = "*" -> x * y
      [] o = "/" -> TruncDiv(x, y)

Tier(o) == IF o \in {"+", "-"} THEN "additive" ELSE "multiplicative"

IsChain(s) ==
    /\ Len(s) = 9
    /\ s[1] \in Digits /\ s[5] \in Digits /\ s[9] \in Digits
    /\ s[3] \in OperatorChars /\ s[7] \in OperatorChars
    /\ s[2] = " " /\ s[4] = " " /\ s[6] = " " /\ s[8] = " "

IsParenLeft(s) ==
    /\ Len(s) = 11
    /\ s[1] = "(" /\ s[7] = ")"
    /\ s[2] \in Digits /\ s[6] \in Digits /\ s[11] \in Digits
    /\ s[4] \in OperatorChars /\ s[9] \in OperatorChars
    /\ s[3] = " " /\ s[5] = " " /\ s[8] = " " /\ s[10] = " "

\* (a o1 b) o2 c
LeftGrouped(a, o1, b, o2, c) ==
    ApplyChar(o2, ApplyChar(o1, DigitValue(a), DigitValue(b)), DigitValue(c))

\* a o1 (b o2 c)
RightGrouped(a, o1, b, o2, c) ==
    ApplyChar(o1, DigitValue(a), ApplyChar(o2, DigitValue(b), DigitValue(c)))

OneStatementWorth(v) == pc = "done" /\ Len(ast) = 1 /\ last_value = <<v>>

(***************************************************************************)
(* C1.  A chain "a op1 b op2 c" of two operators of the same tier ends     *)
(* the run with exactly one statement whose value is (a op1 b) op2 c.      *)
(***************************************************************************)
C1_SameTierLeftToRight ==
    (MainOver /\ IsChain(input) /\ Tier(input[3]) = Tier(input[7]))
        => OneStatementWorth(LeftGrouped(input[1], input[3], input[5],
                                         input[7], input[9]))

(***************************************************************************)
(* C2.  A parenthesis-free input with one additive and one multiplicative  *)
(* operator, in either order, ends the run with exactly one statement      *)
(* whose value applies the multiplicative operator first.                  *)
(***************************************************************************)
C2_MultiplicativeFirst ==
    (MainOver /\ IsChain(input) /\ Tier(input[3]) # Tier(input[7]))
        => OneStatementWorth(
             IF Tier(input[3]) = "additive"
             THEN RightGrouped(input[1], input[3], input[5], input[7], input[9])
             ELSE LeftGrouped(input[1], input[3], input[5], input[7], input[9]))

(***************************************************************************)
(* C7.  "(a op1 b) op2 c" ends the run with exactly one statement, whose   *)
(* left operand is the Parenthesized node and whose value is               *)
(* (a op1 b) op2 c; the input of main.rs ends the run with the value 60.   *)
(***************************************************************************)
C7_ParenthesesOverride ==
    /\ (MainOver /\ IsParenLeft(input))
          => /\ OneStatementWorth(LeftGrouped(input[2], input[4], input[6],
                                              input[9], input[11]))
             /\ ast[1].expr.type = "Binary"
             /\ ast[1].expr.left.type = "Parenthesized"
             /\ ast[1].expr.right.type = "Number"
    /\ (MainOver /\ input = MainInput) => OneStatementWorth(60)

C7_Witness ==
    /\ pc = "done"
    /\ input = ParenLeft("1", "+", "2", "*", "3")
    /\ last_value = <<9>>

(***************************************************************************)
(* Token vectors as the lexer ends them: one EOF token, in last place.     *)
(***************************************************************************)
EndsWithEOF(toks) ==
    /\ toks # <<>>
    /\ \A i \in 1..Len(toks) : (toks[i].kind = EOF) <=> (i = Len(toks))

CountKind(toks, kind, k) == Cardinality({i \in 1..k : toks[i].kind = kind})

\* The first token is a LeftParen that no RightParen after it closes.
FirstParenNeverClosed(toks) ==
    /\ toks # <<>>
    /\ toks[1].kind = LeftParen
    /\ \A k \in 1..Len(toks) :
          CountKind(toks, LeftParen, k) > CountKind(toks, RightParen, k)

(***************************************************************************)
(* C3.  On a token vector whose opening parenthesis is never closed,       *)
(* next_statement ends in the fatal fault; it never returns None.          *)
(***************************************************************************)
C3_UnmatchedParenIsFatal ==
    (EndsWithEOF(tokens) /\ FirstParenNeverClosed(tokens) /\ ps_last # "init")
        => ps_last = "Panic"

(***************************************************************************)
(* C8.  Once a call of next_statement has returned None, every later call  *)
(* on the same parser returns None.                                        *)
(***************************************************************************)
C8_NoneIsFinal ==
    [][(EndsWithEOF(tokens) /\ ps_last = "None") => ps_last' = "None"]_vars

(***************************************************************************)
(* C10.  The parser cursor never decreases, a call that returns a          *)
(* statement moves it forward by at least one token, and repeated calls    *)
(* eventually return None (or end in the fatal fault).                     *)
(***************************************************************************)
C10_StatementLoopTerminates ==
    /\ [][/\ current' >= current
          /\ (Len(ast') > Len(ast) => current' > current)]_vars
    /\ <>(ps_last \in {"None", "Panic"})

C10_Witness == ps_last = "None" /\ Len(ast) = 2 /\ current >= 2

(***************************************************************************)
(* Reading the outcome of a run of next_token calls.                       *)
(***************************************************************************)
LexOver == lex_last \in {"None", "Panic"}

RECURSIVE ConcatLiterals(_)
ConcatLiterals(toks) ==
    IF toks = <<>> THEN <<>>
    ELSE Head(toks).span.literal \o ConcatLiterals(Tail(toks))

PlainChars == {"0", "1", "2", "3", "4", "5", "6", "7", "8", "9",
               "+", "-", "*", "/", "(", ")", " "}

Recognized(c) ==
    c \in Digits \/ is_whitespace(c) \/ c \in {"+", "-", "*", "/", "(", ")"}

(***************************************************************************)
(* C4.  For an input of digits, + - * /, parentheses and spaces, the       *)
(* literals of all the tokens next_token returns, concatenated in order,   *)
(* are the input.                                                          *)
(***************************************************************************)
C4_LosslessRoundTrip ==
    (LexOver /\ \A i \in 1..Len(input) : input[i] \in PlainChars)
        => lex_last = "None" /\ ConcatLiterals(lex_out) = input

(***************************************************************************)
(* C5.  For every input, the calls of next_token return exactly one EOF    *)
(* token, it is the last token returned, and the calls after it return     *)
(* None; for the empty input the tokens are exactly [EOF].                 *)
(***************************************************************************)
C5_ExactlyOneEOFLast ==
    /\ LexOver =>
          /\ lex_last = "None"
          /\ lex_out # <<>>
          /\ \A i \in 1..Len(lex_out) :
                (lex_out[i].kind = EOF) <=> (i = Len(lex_out))
    /\ (LexOver /\ input = <<>>) => Len(lex_out) = 1

(***************************************************************************)
(* C6.  For every input, next_token never faults, and when the calls are   *)
(* over each unrecognized character has become exactly one Bad token,      *)
(* with the EOF token returned after them.                                 *)
(***************************************************************************)
C6_BadNeverAborts ==
    /\ lex_last # "Panic"
    /\ LexOver =>
          /\ CountKind(lex_out, Bad, Len(lex_out))
                = Cardinality({i \in 1..Len(input) : ~Recognized(input[i])})
          /\ lex_out # <<>>
          /\ lex_out[Len(lex_out)].kind = EOF

(***************************************************************************)
(* C9.  For a tree with no zero divisor, the visit ends without a fault    *)
(* and leaves in last_value the value of the recursive fold Eval.          *)
(***************************************************************************)
RECURSIVE Eval(_)
Eval(e) ==
    CASE e.type = "Number" -> e.number
      [] e.type = "Parenthesized" -> Eval(e.expression)
      [] e.type = "Binary" ->
           LET l == Eval(e.left)
               r == Eval(e.right)
           IN  CASE e.operator.kind = "Plus" -> l + r
                 [] e.operator.kind = "Minus" -> l - r
                 [] e.operator.kind = "Multiply" -> l * r
                 [] e.operator.kind = "Divide" ->
                      IF r = 0 THEN 0 ELSE TruncDiv(l, r)

RECURSIVE NoZeroDivisor(_)
NoZeroDivisor(e) ==
    CASE e.type = "Number" -> TRUE
      [] e.type = "Parenthesized" -> NoZeroDivisor(e.expression)
      [] e.type = "Binary" ->
           /\ NoZeroDivisor(e.left)
           /\ NoZeroDivisor(e.right)
           /\ (e.operator.kind = "Divide" => Eval(e.right) # 0)

C9_LastValueIsFold ==
    (pc \in {"visited", "panic"} /\ NoZeroDivisor(expr))
        => pc = "visited" /\ last_value = <<Eval(expr)>>

C9_Witness ==
    /\ pc = "visited"
    /\ expr.type = "Binary"
    /\ expr.operator.kind = "Divide"
    /\ expr.left.type = "Binary"
    /\ expr.right.type = "Binary"
    /\ Eval(expr.left) < 0
    /\ Eval(expr.right) = 2
    /\ Eval(expr.left) # 2 * last_value[1]

====
